---- MODULE Spec2Model ----
(***************************************************************************)
(* A model of the dispatch core of nuska (src/src/server.ts): the response *)
(* builder, the middleware chain executor, the route table, the dispatcher *)
(* and the server lifecycle.                                               *)
(***************************************************************************)
EXTENDS Integers, Sequences, FiniteSets, TLC

VARIABLES
    globalMiddlewares,  \* Server._globalMiddlewares
    routes,             \* Server._routes
    isRunning,          \* Server._isRunning
    engine,             \* the engine: listening or not, and its unsettled listen/close calls
    responses,          \* every response createResponse has built, by creation order
    last,               \* the last call made on a response and how it ended
    atSend,             \* what status/headers/body read right after the first send
    pc,                 \* where processRequest is: "idle", "chain", "sweep", "done"
    request,            \* the request being dispatched
    allMiddlewares,     \* executeMiddlewareChain: the combined middleware list
    handler,            \* executeMiddlewareChain: route.handler
    index,              \* executeMiddlewareChain: the chain cursor
    threads,            \* the call stacks: threads[1] is the awaited chain
    caught,             \* processRequest: the error its catch received
    cursor,             \* handleError: position of the for loop
    result,             \* the response processRequest resolved to (0: not yet)
    rejected,           \* processRequest rejected instead of resolving
    unhandled,          \* errors that ended a continuation nobody awaited
    trace,              \* the hooks and handlers invoked, in order
    parked,             \* the other processRequest calls, each with its own locals
    heap                \* the arrays and route objects that route groups refer to

vars == <<globalMiddlewares, routes, isRunning, engine, responses, last, atSend,
          pc, request, allMiddlewares, handler, index, threads, caught, cursor,
          result, rejected, unhandled, trace, parked, heap>>

serverVars == <<globalMiddlewares, routes, isRunning, engine>>
dispatchVars == <<pc, request, allMiddlewares, handler, index, threads, caught,
                  cursor, result, rejected, unhandled, trace, parked, heap>>
probeVars == <<last, atSend, parked, heap>>

(***************************************************************************)
(* Bounds                                                                  *)
(***************************************************************************)
MaxCalls == 4          \* calls made on one response in SpecResponse
MaxGlobal == 2         \* global middlewares registered with use
MaxRoutes == 1         \* routes registered with route
MaxRouteMiddlewares == 1   \* middlewares of one route
MaxPending == 2        \* listen calls the engine has not settled yet
MaxTable == 3          \* routes of the table in SpecLookup
MaxOps == 3            \* calls and reads made on one response in SpecCalls
MaxInFlight == 2       \* processRequest calls in flight at once in SpecConcurrent
MaxGroupRoutes == 2    \* routes of a route group in SpecGroup
MaxGroupCalls == 3     \* calls made on route groups in SpecGroup

(***************************************************************************)
(* Response builder: createResponse                                        *)
(***************************************************************************)
Unset == 0             \* `let status: number | undefined`
DefaultStatus == 200

Undefined == [kind |-> "undefined", val |-> ""]
Str(s) == [kind |-> "string", val |-> s]
ErrorBody(message) == [kind |-> "object", val |-> message]   \* { error: message }

NoHeaders == [n \in {} |-> ""]
NoError == ""
ErrStatusAfterSent == "Cannot set status after response has been sent"
ErrHeadersAfterSent == "Cannot set headers after response has been sent"
ErrAlreadySent == "Response has already been sent"

createResponse ==
    [status |-> Unset, headers |-> NoHeaders, body |-> Undefined,
     sent |-> FALSE, finished |-> FALSE]

\* the getters
getStatus(r) == IF r.status = Unset THEN DefaultStatus ELSE r.status
getHeaders(r) == r.headers
getBody(r) == r.body
Read(r) == [status |-> getStatus(r), headers |-> getHeaders(r), body |-> getBody(r)]

\* Each mutator gives the response after the call and the error it threw.
setStatus(r, code) ==
    IF r.sent THEN [r |-> r, err |-> ErrStatusAfterSent]
    ELSE [r |-> [r EXCEPT !.status = code], err |-> NoError]

Put(h, name, value) == [n \in DOMAIN h \cup {name} |-> IF n = name THEN value ELSE h[n]]

setHeaderUnguarded(r, name, value) ==
    [r |-> [r EXCEPT !.headers = Put(r.headers, name, value)], err |-> NoError]

setHeader(r, name, value) ==
    IF r.sent THEN [r |-> r, err |-> ErrHeadersAfterSent]
    ELSE [r |-> [r EXCEPT !.headers = Put(r.headers, name, value)], err |-> NoError]

\* the status set to 200 whether or not one was set
sendDefaulting(r, data) ==
    IF r.sent THEN [r |-> r, err |-> ErrAlreadySent]
    ELSE [r |-> [r EXCEPT !.status = DefaultStatus,
                          !.body = data, !.sent = TRUE, !.finished = TRUE],
          err |-> NoError]

\* `finished = true` left out
sendUnfinished(r, data) ==
    IF r.sent THEN [r |-> r, err |-> ErrAlreadySent]
    ELSE [r |-> [r EXCEPT !.status = IF r.status = Unset THEN DefaultStatus ELSE r.status,
                          !.body = data, !.sent = TRUE],
          err |-> NoError]

send(r, data) ==
    IF r.sent THEN [r |-> r, err |-> ErrAlreadySent]
    ELSE [r |-> [r EXCEPT !.status = IF r.status = Unset THEN DefaultStatus ELSE r.status,
                          !.body = data, !.sent = TRUE, !.finished = TRUE],
          err |-> NoError]

\* a content-type set earlier is kept
jsonKeepsContentType(r, data) ==
    LET h == IF "content-type" \in DOMAIN r.headers /\ ~r.sent
             THEN [r |-> r, err |-> NoError]
             ELSE setHeader(r, "content-type", "application/json")
    IN  IF h.err # NoError THEN h ELSE send(h.r, data)

json(r, data) ==
    LET h == setHeader(r, "content-type", "application/json")
    IN  IF h.err # NoError THEN h ELSE send(h.r, data)

\* send in place of json
createErrorResponsePlain(status, message) ==
    send(setStatus(createResponse, status).r, ErrorBody(message)).r

createErrorResponse(status, message) ==
    json(setStatus(createResponse, status).r, ErrorBody(message)).r

(***************************************************************************)
(* The states in which nothing is registered and no request is in flight   *)
(***************************************************************************)
EngineIdle == [listening |-> FALSE, listens |-> 0, closes |-> 0]
NoErr == [by |-> "none", mw |-> 0, msg |-> NoError]
NoRequest == [method |-> "", path |-> ""]
NoSnapshot == [status |-> Unset, headers |-> NoHeaders, body |-> Undefined]
NoCall == [op |-> "none", late |-> FALSE, err |-> NoError, same |-> TRUE, n |-> 0]

ServerConstructed ==
    /\ globalMiddlewares = <<>>
    /\ routes = <<>>
    /\ isRunning = FALSE
    /\ engine = EngineIdle

NoDispatch ==
    /\ pc = "idle"
    /\ request = NoRequest
    /\ allMiddlewares = <<>>
    /\ handler = <<>>
    /\ index = 0
    /\ threads = <<>>
    /\ caught = NoErr
    /\ cursor = 0
    /\ result = 0
    /\ rejected = FALSE
    /\ unhandled = 0
    /\ trace = <<>>
    /\ parked = <<>>
    /\ heap = <<>>

(***************************************************************************)
(* SpecResponse: one response and every sequence of calls on it            *)
(***************************************************************************)
StatusCodes == {201, 404}
HeaderNames == {"content-type", "Content-Type"}
HeaderValues == {"text/plain", "application/json"}
Bodies == {Undefined, Str("Root"), ErrorBody("oops")}

\* One call on responses[1]: `last` keeps which call it was, whether the
\* response was already sent, the error it threw, whether it left status,
\* headers and body as they were, and how many calls there have been; the
\* first completed send is also kept in `atSend`.
Call(op, out) ==
    /\ last.n < MaxCalls
    /\ responses' = <<out.r>>
    /\ last' = [op |-> op, late |-> responses[1].sent, err |-> out.err,
                same |-> Read(out.r) = Read(responses[1]), n |-> last.n + 1]
    /\ atSend' = IF ~responses[1].sent /\ out.r.sent THEN Read(out.r) ELSE atSend
    /\ UNCHANGED <<serverVars, dispatchVars>>

RespSetStatus == \E c \in StatusCodes : Call("setStatus", setStatus(responses[1], c))
RespSetHeader ==
    \E n \in HeaderNames, v \in HeaderValues :
        Call("setHeader", setHeader(responses[1], n, v))
RespSend == \E d \in Bodies : Call("send", send(responses[1], d))
RespJson == \E d \in Bodies : Call("json", json(responses[1], d))

InitResponse ==
    /\ ServerConstructed
    /\ NoDispatch
    /\ responses = <<createResponse>>
    /\ last = NoCall
    /\ atSend = NoSnapshot

NextResponse == RespSetStatus \/ RespSetHeader \/ RespSend \/ RespJson

SpecResponse == InitResponse /\ [][NextResponse]_vars

\* C1: once a send or json has completed, every later setStatus, setHeader,
\* send or json fails with an error, and status, headers and body read as
\* they did right after that first send.
C1_WriteOnce ==
    /\ last.late => last.err # NoError
    /\ responses[1].sent => Read(responses[1]) = atSend

C1_Witness ==
    /\ last.late /\ last.op = "json" /\ last.n = 3
    /\ atSend # NoSnapshot

(***************************************************************************)
(* Middleware, routes and requests                                         *)
(***************************************************************************)
\* A hook or handler is what it does, in order:
\*   "next"   await next()          "call"   next() without awaiting it
\*   "throw"  throw an error        "send"   response.send("Root")
\*   "json"   response.json({error: ...})    "status" response.setStatus(201)
\* and it returns when nothing is left to do.  A hook that throws, or that
\* awaits a call that throws, does nothing more (no hook catches).
Absent == <<"absent">>
Defined(hook) == hook # Absent
Mw(b, a, e) == [before |-> b, after |-> a, onError |-> e]

MiddlewareKinds ==
    { Mw(<<"next">>, Absent, Absent),
      Mw(Absent, <<"send">>, Absent),
      Mw(<<"throw">>, Absent, Absent),
      Mw(<<"throw">>, Absent, <<"json">>),
      Mw(<<"next">>, <<"send">>, <<"json">>),
      Mw(<<"next">>, Absent, <<"throw">>),
      Mw(<<"throw">>, Absent, <<"next">>),
      Mw(<<"next", "throw">>, Absent, <<"json">>),
      Mw(<<"call">>, Absent, Absent),
      Mw(<<"call", "next">>, Absent, Absent),
      Mw(<<"next", "next">>, Absent, Absent),
      Mw(<<"send">>, Absent, Absent) }

HandlerKinds == { <<"send">>, <<"throw">>, <<"send", "throw">>, <<>> }
RouteMethods == {"GET"}
RoutePaths == {"", "/x"}
RequestMethods == {"GET", "POST"}
RequestPaths == {"/"}

SeqsUpTo(S, n) == UNION { [1..k -> S] : k \in 0..n }

RouteInputs ==
    [method : RouteMethods, path : RoutePaths, handler : HandlerKinds,
     middlewares : SeqsUpTo(MiddlewareKinds, MaxRouteMiddlewares)]
Requests == [method : RequestMethods, path : RequestPaths]

(***************************************************************************)
(* Server: registration and lifecycle                                      *)
(***************************************************************************)
ErrRoutesAfterStart == "Cannot add routes after server has started"
ErrAlreadyRunning == "Server is already running"

\* use has no parameter `running` in the source: it never looks at _isRunning.
use(mws, running, middleware) == [list |-> Append(mws, middleware), err |-> NoError]

normalizePath(r) == IF r.path = "" THEN [r EXCEPT !.path = "/"] ELSE r

route(rs, running, routeInput) ==
    IF running THEN [list |-> rs, err |-> ErrRoutesAfterStart]
    ELSE [list |-> Append(rs, normalizePath(routeInput)), err |-> NoError]

Use(m) ==
    /\ pc = "idle"
    /\ Len(globalMiddlewares) < MaxGlobal
    /\ globalMiddlewares' = use(globalMiddlewares, isRunning, m).list
    /\ UNCHANGED <<routes, isRunning, engine, responses, atSend, dispatchVars>>

Route(r) ==
    /\ pc = "idle"
    /\ Len(routes) < MaxRoutes
    /\ routes' = route(routes, isRunning, r).list
    /\ UNCHANGED <<globalMiddlewares, isRunning, engine, responses, atSend, dispatchVars>>

\* start, up to `await this._engine.listen(port, callback)`
start(running) ==
    IF running THEN [running |-> running, listen |-> 0, err |-> ErrAlreadyRunning]
    ELSE [running |-> TRUE, listen |-> 1, err |-> NoError]

Start ==
    /\ pc = "idle"
    /\ engine.listens < MaxPending
    /\ isRunning' = start(isRunning).running
    /\ engine' = [engine EXCEPT !.listens = @ + start(isRunning).listen]
    /\ UNCHANGED <<globalMiddlewares, routes, responses, atSend, dispatchVars>>

\* the engine's listen resolves: start logs and returns
ListenResolves ==
    /\ engine.listens > 0
    /\ engine' = [engine EXCEPT !.listens = @ - 1, !.listening = TRUE]
    /\ UNCHANGED <<globalMiddlewares, routes, isRunning, responses, atSend, dispatchVars>>

\* the engine's listen rejects: start's catch resets the flag and rethrows
ListenRejects ==
    /\ engine.listens > 0
    /\ engine' = [engine EXCEPT !.listens = @ - 1]
    /\ isRunning' = FALSE
    /\ UNCHANGED <<globalMiddlewares, routes, responses, atSend, dispatchVars>>

\* stop, up to `await this._engine.close()`; nothing when not running
Stop ==
    /\ pc = "idle"
    /\ engine.closes < MaxPending
    /\ engine' = IF isRunning THEN [engine EXCEPT !.closes = @ + 1] ELSE engine
    /\ UNCHANGED <<globalMiddlewares, routes, isRunning, responses, atSend, dispatchVars>>

\* the engine's close resolves: stop clears the flag
CloseResolves ==
    /\ engine.closes > 0
    /\ engine' = [engine EXCEPT !.closes = @ - 1, !.listening = FALSE]
    /\ isRunning' = FALSE
    /\ UNCHANGED <<globalMiddlewares, routes, responses, atSend, dispatchVars>>

\* the engine's close rejects: stop rethrows and the flag stays
CloseRejects ==
    /\ engine.closes > 0
    /\ engine' = [engine EXCEPT !.closes = @ - 1]
    /\ UNCHANGED <<globalMiddlewares, routes, isRunning, responses, atSend, dispatchVars>>

(***************************************************************************)
(* Dispatcher: processRequest, executeMiddlewareChain, handleError         *)
(***************************************************************************)
pathMatches(routePath, requestPath) == routePath = requestPath

Matching(rs, method, path) ==
    { i \in 1..Len(rs) : rs[i].method = method /\ pathMatches(rs[i].path, path) }

Min(S) == CHOOSE x \in S : \A y \in S : x <= y
Max(S) == CHOOSE x \in S : \A y \in S : x >= y

\* the last match in place of the first
findRouteLast(rs, method, path) ==
    IF Matching(rs, method, path) = {} THEN 0 ELSE Max(Matching(rs, method, path))

\* the position of the route found, 0 when there is none
findRoute(rs, method, path) ==
    IF Matching(rs, method, path) = {} THEN 0 ELSE Min(Matching(rs, method, path))

Top(stack) == stack[Len(stack)]
Pop(stack) == SubSeq(stack, 1, Len(stack) - 1)
Frame(kind, mw, res, err) == [kind |-> kind, mw |-> mw, ip |-> 1, res |-> res, err |-> err]
Thrown(f, msg) == [by |-> f.kind, mw |-> f.mw, msg |-> msg]

\* What `trace` keeps of one invocation: the hook ("before", "onError",
\* "handler", "sweepOnError": an onError called by handleError) or "throw",
\* the middleware's position, the response and the error it was given; and
\* of a throw, the cursor, the frames of the throwing call stack (outermost
\* first) and whether that stack is the one processRequest awaits.
Event(ev, mw, res, err) ==
    [ev |-> ev, mw |-> mw, res |-> res, err |-> err, index |-> 0,
     stack |-> <<>>, awaited |-> TRUE]
Shape(stack) == [i \in 1..Len(stack) |-> <<stack[i].kind, stack[i].mw>>]
ThrowEvent(d, t, e) ==
    [ev |-> "throw", mw |-> e.mw, res |-> Top(d.threads[t]).res, err |-> e,
     index |-> d.index, stack |-> Shape(d.threads[t]), awaited |-> t = 1]

\* the dispatch state as one record, so that the steps compose
Now ==
    [responses |-> responses, pc |-> pc, index |-> index, threads |-> threads,
     caught |-> caught, cursor |-> cursor, result |-> result,
     rejected |-> rejected, unhandled |-> unhandled, trace |-> trace]

Becomes(d) ==
    /\ responses' = d.responses
    /\ pc' = d.pc
    /\ index' = d.index
    /\ threads' = d.threads
    /\ caught' = d.caught
    /\ cursor' = d.cursor
    /\ result' = d.result
    /\ rejected' = d.rejected
    /\ unhandled' = d.unhandled
    /\ trace' = d.trace

Script(f) ==
    CASE f.kind = "before" -> allMiddlewares[f.mw].before
      [] f.kind = "pass" -> <<"next">>
      [] f.kind = "onError" -> allMiddlewares[f.mw].onError
      [] f.kind = "sweep" -> globalMiddlewares[f.mw].onError
      [] f.kind = "handler" -> handler
      [] f.kind = "after" -> allMiddlewares[f.mw].after

Without(ts, t) == [i \in 1..(Len(ts) - 1) |-> IF i < t THEN ts[i] ELSE ts[i + 1]]
Advance(stack) == [stack EXCEPT ![Len(stack)].ip = @ + 1]

\* The frame one call of `next` starts, with the cursor it leaves: the route
\* handler once the cursor has passed the list, else the middleware at the
\* cursor, whose before hook runs if it has one.
nextFromEnd(all, idx) ==
    IF idx >= Len(all)
    THEN [frame |-> Frame("handler", 0, 1, NoErr), index |-> idx,
          events |-> <<Event("handler", 0, 1, NoErr)>>]
    ELSE IF Defined(all[Len(all) - idx].before)
    THEN [frame |-> Frame("before", Len(all) - idx, 1, NoErr), index |-> idx + 1,
          events |-> <<Event("before", Len(all) - idx, 1, NoErr)>>]
    ELSE [frame |-> Frame("pass", Len(all) - idx, 1, NoErr), index |-> idx + 1,
          events |-> <<>>]

\* the cursor moved also when it is at the end of the list
nextPastEnd(all, idx) ==
    IF idx >= Len(all)
    THEN [frame |-> Frame("handler", 0, 1, NoErr), index |-> idx + 1,
          events |-> <<Event("handler", 0, 1, NoErr)>>]
    ELSE IF Defined(all[idx + 1].before)
    THEN [frame |-> Frame("before", idx + 1, 1, NoErr), index |-> idx + 1,
          events |-> <<Event("before", idx + 1, 1, NoErr)>>]
    ELSE [frame |-> Frame("pass", idx + 1, 1, NoErr), index |-> idx + 1,
          events |-> <<>>]

next(all, idx) ==
    IF idx >= Len(all)
    THEN [frame |-> Frame("handler", 0, 1, NoErr), index |-> idx,
          events |-> <<Event("handler", 0, 1, NoErr)>>]
    ELSE IF Defined(all[idx + 1].before)
    THEN [frame |-> Frame("before", idx + 1, 1, NoErr), index |-> idx + 1,
          events |-> <<Event("before", idx + 1, 1, NoErr)>>]
    ELSE [frame |-> Frame("pass", idx + 1, 1, NoErr), index |-> idx + 1,
          events |-> <<>>]

\* the chain's response handed to onError instead of a new one
handleErrorSameResponse(d, k) ==
    LET able == { j \in k..Len(globalMiddlewares) : Defined(globalMiddlewares[j].onError) }
        id == Len(d.responses) + 1
    IN  IF able = {}
        THEN [d EXCEPT !.responses = Append(@, createErrorResponse(500, "Internal Server Error")),
                       !.threads[1] = <<>>, !.cursor = Len(globalMiddlewares) + 1,
                       !.result = id, !.pc = "done"]
        ELSE [d EXCEPT !.threads[1] = <<Frame("sweep", Min(able), 1, d.caught)>>,
                       !.cursor = Min(able), !.pc = "sweep",
                       !.trace = Append(@, Event("sweepOnError", Min(able), 1, d.caught))]

\* an onError that failed in the sweep is given a second try
handleErrorRetrying(d, k) ==
    LET from == IF k > 1 /\ Cardinality({ p \in 1..Len(d.trace) :
                                /\ d.trace[p].ev = "sweepOnError"
                                /\ d.trace[p].mw = k - 1 }) = 1
                THEN k - 1 ELSE k
        able == { j \in from..Len(globalMiddlewares) : Defined(globalMiddlewares[j].onError) }
        id == Len(d.responses) + 1
    IN  IF able = {}
        THEN [d EXCEPT !.responses = Append(@, createErrorResponse(500, "Internal Server Error")),
                       !.threads[1] = <<>>, !.cursor = Len(globalMiddlewares) + 1,
                       !.result = id, !.pc = "done"]
        ELSE [d EXCEPT !.responses = Append(@, createResponse),
                       !.threads[1] = <<Frame("sweep", Min(able), id, d.caught)>>,
                       !.cursor = Min(able), !.pc = "sweep",
                       !.trace = Append(@, Event("sweepOnError", Min(able), id, d.caught))]

\* handleError from position k of the global middlewares on: the first one
\* with an onError gets a new response and is called; with none left the
\* answer is the 500 response.
handleError(d, k) ==
    LET able == { j \in k..Len(globalMiddlewares) : Defined(globalMiddlewares[j].onError) }
        id == Len(d.responses) + 1
    IN  IF able = {}
        THEN [d EXCEPT !.responses = Append(@, createErrorResponse(500, "Internal Server Error")),
                       !.threads[1] = <<>>, !.cursor = Len(globalMiddlewares) + 1,
                       !.result = id, !.pc = "done"]
        ELSE [d EXCEPT !.responses = Append(@, createResponse),
                       !.threads[1] = <<Frame("sweep", Min(able), id, d.caught)>>,
                       !.cursor = Min(able), !.pc = "sweep",
                       !.trace = Append(@, Event("sweepOnError", Min(able), id, d.caught))]

\* Where a thrown error lands: the catch of the nearest `next` on the stack
\* whose before (or pass-through) was running and whose middleware has an
\* onError; the catch of handleError around a swept onError; or nowhere.
RECURSIVE catchInChainOnly(_, _)
catchInChainOnly(all, stack) ==
    IF stack = <<>> THEN [stack |-> <<>>, by |-> "nobody"]
    ELSE IF Top(stack).kind \in {"before", "pass"} /\ Defined(all[Top(stack).mw].onError)
    THEN [stack |-> stack, by |-> "onError"]
    ELSE catchInChainOnly(all, Pop(stack))

\* the thrower's own try block left out
catchInCaller(all, stack) ==
    IF stack = <<>> THEN [stack |-> <<>>, by |-> "nobody"]
    ELSE IF Top(stack).kind = "sweep" THEN [stack |-> stack, by |-> "handleError"]
    ELSE catchInChainOnly(all, Pop(stack))

\* the outermost onError instead of the nearest
catchOutermost(all, stack) ==
    LET able == { k \in 1..Len(stack) : /\ stack[k].kind \in {"before", "pass"}
                                        /\ Defined(all[stack[k].mw].onError) }
    IN  IF stack # <<>> /\ Top(stack).kind = "sweep"
        THEN [stack |-> stack, by |-> "handleError"]
        ELSE IF able = {} THEN [stack |-> <<>>, by |-> "nobody"]
        ELSE [stack |-> SubSeq(stack, 1, Min(able)), by |-> "onError"]

RECURSIVE catch(_, _)
catch(all, stack) ==
    IF stack = <<>> THEN [stack |-> <<>>, by |-> "nobody"]
    ELSE IF Top(stack).kind \in {"before", "pass"} /\ Defined(all[Top(stack).mw].onError)
    THEN [stack |-> stack, by |-> "onError"]
    ELSE IF Top(stack).kind = "sweep"
    THEN [stack |-> stack, by |-> "handleError"]
    ELSE catch(all, Pop(stack))

\* thread t throws e
Raise(d0, t, e) ==
    LET d == [d0 EXCEPT !.trace = Append(@, ThrowEvent(d0, t, e))]
        c == catch(allMiddlewares, d.threads[t])
        f == Top(c.stack)
    IN  CASE c.by = "onError" ->
               [d EXCEPT !.threads[t] = [c.stack EXCEPT ![Len(c.stack)] = Frame("onError", f.mw, f.res, e)],
                         !.trace = Append(@, Event("onError", f.mw, f.res, e))]
          [] c.by = "handleError" -> handleError(d, f.mw + 1)
          [] c.by = "nobody" /\ t = 1 /\ d.pc = "chain" ->
               handleError([d EXCEPT !.caught = e, !.pc = "sweep"], 1)
          [] c.by = "nobody" /\ t = 1 /\ d.pc # "chain" ->
               [d EXCEPT !.threads[1] = <<>>, !.rejected = TRUE, !.pc = "done"]
          [] c.by = "nobody" /\ t > 1 ->
               [d EXCEPT !.threads = Without(@, t), !.unhandled = @ + 1]

\* the chain answers with a response of its own making
ReturnFresh(d, t) ==
    LET rest == Pop(d.threads[t])
    IN  IF rest # <<>> THEN [d EXCEPT !.threads[t] = Advance(rest)]
        ELSE IF t > 1 THEN [d EXCEPT !.threads = Without(@, t)]
        ELSE [d EXCEPT !.threads[1] = <<>>, !.pc = "done",
                       !.responses = Append(@, createResponse),
                       !.result = Len(d.responses) + 1]

\* the after hook of a middleware called once its step of the chain is over
ReturnThenAfter(d, t) ==
    LET f == Top(d.threads[t])
        rest == Pop(d.threads[t])
    IN  IF f.kind \in {"before", "pass", "onError"} /\ Defined(allMiddlewares[f.mw].after)
        THEN [d EXCEPT !.threads[t] = Append(rest, Frame("after", f.mw, f.res, NoErr)),
                       !.trace = Append(@, Event("after", f.mw, f.res, NoErr))]
        ELSE IF rest # <<>> THEN [d EXCEPT !.threads[t] = Advance(rest)]
        ELSE IF t > 1 THEN [d EXCEPT !.threads = Without(@, t)]
        ELSE [d EXCEPT !.threads[1] = <<>>, !.pc = "done",
                       !.result = Top(d.threads[1]).res]

\* thread t's running hook or handler returns
Return(d, t) ==
    LET rest == Pop(d.threads[t])
    IN  IF rest # <<>> THEN [d EXCEPT !.threads[t] = Advance(rest)]
        ELSE IF t > 1 THEN [d EXCEPT !.threads = Without(@, t)]
        ELSE [d EXCEPT !.threads[1] = <<>>, !.pc = "done",
                       !.result = Top(d.threads[1]).res]

\* `[...this._globalMiddlewares, ...(route.middlewares ?? [])]`
combine(globals, scoped) == globals \o scoped

\* executeMiddlewareChain, up to the first hook (or the handler) it starts
executeMiddlewareChain(d, all) ==
    LET n == next(all, 0)
    IN  [d EXCEPT !.responses = <<createResponse>>, !.index = n.index,
                  !.threads = << <<n.frame>> >>, !.pc = "chain",
                  !.trace = n.events]

\* processRequest, up to its first await
processRequest(req) ==
    /\ pc = "idle"
    /\ engine.listening
    /\ request' = req
    /\ LET found == findRoute(routes, req.method, req.path)
       IN  IF found = 0
           THEN /\ Becomes([Now EXCEPT !.responses = <<createErrorResponse(404, "Not Found")>>,
                                       !.result = 1, !.pc = "done"])
                /\ UNCHANGED <<allMiddlewares, handler>>
           ELSE /\ allMiddlewares' = combine(globalMiddlewares, routes[found].middlewares)
                /\ handler' = routes[found].handler
                /\ Becomes(executeMiddlewareChain(Now, combine(globalMiddlewares, routes[found].middlewares)))
    /\ UNCHANGED <<serverVars, probeVars>>

Running(t) ==
    /\ pc \in {"chain", "sweep", "done"}
    /\ t \in 1..Len(threads)
    /\ threads[t] # <<>>

Op(t) == Script(Top(threads[t]))[Top(threads[t]).ip]
AtOp(t, op) ==
    /\ Running(t)
    /\ Top(threads[t]).ip <= Len(Script(Top(threads[t])))
    /\ Op(t) = op

Rest == UNCHANGED <<serverVars, probeVars, request, allMiddlewares, handler>>

\* `await next()` in a hook
HookNext(t) ==
    /\ AtOp(t, "next")
    /\ IF Top(threads[t]).kind = "sweep"
       THEN Becomes([Now EXCEPT !.threads[t] = Advance(@)])
       ELSE LET n == next(allMiddlewares, index)
            IN  Becomes([Now EXCEPT !.threads[t] = Append(@, n.frame),
                                    !.index = n.index,
                                    !.trace = @ \o n.events])
    /\ Rest

\* `next()` in a hook, not awaited: the call runs on its own
HookCall(t) ==
    /\ AtOp(t, "call")
    /\ IF Top(threads[t]).kind = "sweep"
       THEN Becomes([Now EXCEPT !.threads[t] = Advance(@)])
       ELSE LET n == next(allMiddlewares, index)
            IN  Becomes([Now EXCEPT !.threads = Append([@ EXCEPT ![t] = Advance(@)], <<n.frame>>),
                                    !.index = n.index,
                                    !.trace = @ \o n.events])
    /\ Rest

HookThrow(t) ==
    /\ AtOp(t, "throw")
    /\ Becomes(Raise(Now, t, Thrown(Top(threads[t]), "thrown")))
    /\ Rest

Write(op, r) ==
    CASE op = "send" -> send(r, Str("Root"))
      [] op = "json" -> json(r, ErrorBody("handled"))
      [] op = "status" -> setStatus(r, 201)

\* a hook or handler calls send, json or setStatus on its response
HookWrite(t) ==
    /\ Running(t)
    /\ Top(threads[t]).ip <= Len(Script(Top(threads[t])))
    /\ Op(t) \in {"send", "json", "status"}
    /\ LET f == Top(threads[t])
           out == Write(Op(t), responses[f.res])
       IN  IF out.err # NoError
           THEN Becomes(Raise(Now, t, Thrown(f, out.err)))
           ELSE Becomes([Now EXCEPT !.responses[f.res] = out.r,
                                    !.threads[t] = Advance(@)])
    /\ Rest

HookReturn(t) ==
    /\ Running(t)
    /\ Top(threads[t]).ip > Len(Script(Top(threads[t])))
    /\ Becomes(Return(Now, t))
    /\ Rest

Init ==
    /\ ServerConstructed
    /\ NoDispatch
    /\ responses = <<>>
    /\ last = NoCall
    /\ atSend = NoSnapshot

RegisterMiddleware == \E m \in MiddlewareKinds : Use(m) /\ UNCHANGED last
RegisterRoute == \E r \in RouteInputs : Route(r) /\ UNCHANGED last
StartServer == Start /\ UNCHANGED last
Listening == ListenResolves /\ UNCHANGED last
Dispatch == \E req \in Requests : processRequest(req)
AwaitNext == \E t \in DOMAIN threads : HookNext(t)
CallNext == \E t \in DOMAIN threads : HookCall(t)
Throw == \E t \in DOMAIN threads : HookThrow(t)
WriteResponse == \E t \in DOMAIN threads : HookWrite(t)
ReturnFromHook == \E t \in DOMAIN threads : HookReturn(t)

Next ==
    \/ RegisterMiddleware
    \/ RegisterRoute
    \/ StartServer
    \/ Listening
    \/ Dispatch
    \/ AwaitNext
    \/ CallNext
    \/ Throw
    \/ WriteResponse
    \/ ReturnFromHook

Spec == Init /\ [][Next]_vars

(***************************************************************************)
(* What the trace shows                                                    *)
(***************************************************************************)
At(ev) == { p \in 1..Len(trace) : trace[p].ev = ev }
Throws == At("throw")
ThrowsBy(kind) == { p \in Throws : trace[p].err.by = kind }
HasBefore(i) == Defined(allMiddlewares[i].before)
HasOnError(i) == Defined(allMiddlewares[i].onError)
Uses(hook, op) == \E k \in 1..Len(hook) : hook[k] = op
IsBefore(e) == e.ev = "before"
Matched == routes[Min({ i \in 1..Len(routes) :
                /\ routes[i].method = request.method
                /\ routes[i].path = request.path })]
NoMatch == \A i \in 1..Len(routes) :
               routes[i].method # request.method \/ routes[i].path # request.path

\* C2: processRequest never rejects: it resolves to a response whatever the
\* hooks and the handler do, and until then it has a step to take.
C2_NeverRaises ==
    /\ ~rejected
    /\ pc = "done" => result \in 1..Len(responses)
    /\ pc \in {"chain", "sweep"} => Running(1)

C2_Witness ==
    /\ pc = "done"
    /\ ThrowsBy("onError") # {}
    /\ ThrowsBy("sweep") # {}
    /\ getStatus(responses[result]) = 500

EveryBeforeAwaits ==
    /\ pc # "idle"
    /\ ~NoMatch
    /\ Throws = {}
    /\ \A i \in 1..Len(allMiddlewares) :
         HasBefore(i) => /\ Uses(allMiddlewares[i].before, "next")
                         /\ ~Uses(allMiddlewares[i].before, "call")

BeforesRun == [p \in 1..Len(SelectSeq(trace, IsBefore)) |->
                  allMiddlewares[SelectSeq(trace, IsBefore)[p].mw]]
HasBeforeHook(m) == Defined(m.before)

\* C3: when every before hook awaits the continuation and nothing throws,
\* the before hooks start in list order, global middlewares first and the
\* route's after them, the handler starts after every before hook has, and
\* a middleware without a before hook changes nothing of this.
C3_BeforeOrder ==
    EveryBeforeAwaits =>
      /\ \A p, q \in At("before") : p < q => trace[p].mw < trace[q].mw
      /\ \A q \in At("handler") : \A i \in 1..Len(allMiddlewares) :
           HasBefore(i) => \E p \in At("before") : p < q /\ trace[p].mw = i
      /\ pc = "done" =>
           /\ At("handler") # {}
           /\ BeforesRun = SelectSeq(globalMiddlewares \o Matched.middlewares, HasBeforeHook)

C3_Witness ==
    /\ EveryBeforeAwaits
    /\ pc = "done"
    /\ Len(globalMiddlewares) = 2
    /\ Len(allMiddlewares) = 3
    /\ ~HasBefore(2)
    /\ Cardinality(At("before")) = 2

\* the configuration of C3..C5: global middlewares [A, B], route middlewares [C]
ABC ==
    /\ pc # "idle"
    /\ ~NoMatch
    /\ Len(globalMiddlewares) = 2
    /\ Len(allMiddlewares) = 3

IsHook(e) == e.ev \in {"before", "onError"}
CatchEvent(p, i) ==
    /\ p < Len(trace)
    /\ trace[p + 1].ev = "onError"
    /\ trace[p + 1].mw = i
    /\ trace[p + 1].err = trace[p].err
    /\ trace[p + 1].res = 1

\* The frames of the throwing stack below (outside) the thrower whose
\* middleware can catch: a before hook or a pass-through awaiting the
\* continuation, of a middleware that defines onError.
Enclosing(S) ==
    { k \in 1..(Len(S) - 1) : S[k][1] \in {"before", "pass"} /\ HasOnError(S[k][2]) }

EveryCallAwaited ==
    \A i \in 1..Len(allMiddlewares) :
        /\ HasBefore(i) => ~Uses(allMiddlewares[i].before, "call")
        /\ HasOnError(i) => ~Uses(allMiddlewares[i].onError, "call")

C5_Original ==
    ABC => \A p \in ThrowsBy("before") :
             (trace[p].mw = 2 /\ ~HasOnError(2)) =>
               /\ \A q \in At("before") : trace[q].mw # 3
               /\ At("handler") = {}
               /\ caught = trace[p].err

\* C5 amended: when a before hook throws while the cursor still stands right
\* after its middleware, and the middleware defines no onError, no later
\* before hook and no handler has executed by then; the error goes to the
\* onError of the nearest middleware that encloses the thrower and defines
\* one, and it reaches handleError only when there is none and the chain was
\* awaited down to the thrower.
C5_Propagates ==
    pc # "idle" => \A p \in ThrowsBy("before") :
        (~HasOnError(trace[p].mw) /\ trace[p].index = trace[p].mw) =>
          /\ trace[p].mw < Len(allMiddlewares) =>
               \A q \in 1..p : /\ trace[q].ev # "handler"
                               /\ IsHook(trace[q]) => trace[q].mw <= trace[p].mw
          /\ Enclosing(trace[p].stack) # {} =>
               CatchEvent(p, trace[p].stack[Max(Enclosing(trace[p].stack))][2])
          /\ (Enclosing(trace[p].stack) = {} /\ trace[p].awaited) =>
               caught = trace[p].err
          /\ (Enclosing(trace[p].stack) = {} /\ ~trace[p].awaited) => unhandled > 0

C5_Witness ==
    /\ ABC
    /\ pc = "done"
    /\ \E p \in ThrowsBy("before") :
         /\ trace[p].mw = 2 /\ ~HasOnError(2) /\ trace[p].index = 2
         /\ CatchEvent(p, 1)

\* C6: with no route of the request's method and path, processRequest
\* answers 404 {error: "Not Found"} as sent JSON, and invokes no hook of any
\* middleware and no handler.
C6_NotFound ==
    (pc = "done" /\ NoMatch) =>
      /\ result \in 1..Len(responses)
      /\ getStatus(responses[result]) = 404
      /\ getBody(responses[result]) = ErrorBody("Not Found")
      /\ "content-type" \in DOMAIN getHeaders(responses[result])
      /\ getHeaders(responses[result])["content-type"] = "application/json"
      /\ responses[result].sent
      /\ trace = <<>>
      /\ \A t \in DOMAIN threads : threads[t] = <<>>

C6_Witness ==
    /\ pc = "done"
    /\ NoMatch
    /\ request.method = "POST"
    /\ routes # <<>>
    /\ Len(globalMiddlewares) = 2

Swept == At("sweepOnError")
Raised(q) == \E p \in ThrowsBy("sweep") : p > q /\ trace[p].mw = trace[q].mw

\* C7: once an error has escaped the chain, handleError goes through the
\* global middlewares in registration order, and only those; each one that
\* defines onError is called with the escaped error, a response of its own
\* that is new, and a continuation that does nothing, an earlier one having
\* raised before a later one is tried; processRequest resolves to the
\* response of the first onError that completes, never to the chain's.
C7_Sweep ==
    /\ \A q \in Swept :
         /\ caught # NoErr
         /\ trace[q].err = caught
         /\ trace[q].mw \in 1..Len(globalMiddlewares)
         /\ Defined(globalMiddlewares[trace[q].mw].onError)
         /\ trace[q].res \in 2..Len(responses)
         /\ \A j \in 1..(trace[q].mw - 1) :
              Defined(globalMiddlewares[j].onError) =>
                \E q2 \in Swept, p \in ThrowsBy("sweep") :
                    /\ q2 < p /\ p < q
                    /\ trace[q2].mw = j /\ trace[p].mw = j
         /\ \A q2 \in Swept :
              q2 < q => /\ trace[q2].mw < trace[q].mw
                        /\ trace[q2].res # trace[q].res
    /\ (caught # NoErr /\ \E j \in DOMAIN globalMiddlewares :
                            Defined(globalMiddlewares[j].onError)) => Swept # {}
    /\ pc = "sweep" =>
         /\ Len(threads[1]) = 1
         /\ Top(threads[1]).kind = "sweep"
         /\ Top(threads[1]).ip = 1 => responses[Top(threads[1]).res] = createResponse
    /\ (pc = "done" /\ caught # NoErr) =>
         /\ result # 1
         /\ \A q \in Swept : ~Raised(q) =>
              /\ result = trace[q].res
              /\ \A q2 \in Swept : q2 < q => Raised(q2)
         /\ (\A q \in Swept : Raised(q)) =>
              \A q \in Swept : result # trace[q].res

C7_Witness ==
    /\ pc = "done"
    /\ caught # NoErr
    /\ Cardinality(Swept) = 2
    /\ result = 3
    /\ responses[1].sent
    /\ responses[3].sent

NoOnErrorAnywhere ==
    /\ \A i \in DOMAIN allMiddlewares : ~HasOnError(i)
    /\ \A j \in DOMAIN globalMiddlewares : ~Defined(globalMiddlewares[j].onError)

\* C8 as stated: if the handler throws and no middleware of the chain nor any
\* global middleware defines onError, or every onError tried by handleError
\* raises, processRequest answers 500 {error: "Internal Server Error"}.
C8_Original ==
    (/\ pc = "done"
     /\ ThrowsBy("handler") # {}
     /\ \/ NoOnErrorAnywhere
        \/ caught # NoErr /\ \A q \in Swept : Raised(q)) =>
      /\ getStatus(responses[result]) = 500
      /\ getBody(responses[result]) = ErrorBody("Internal Server Error")

Catches(S, k, j) ==
    /\ S[k][2] = j
    /\ S[k][1] \in {"before", "pass"}
    /\ \A k2 \in (k + 1)..Len(S) :
         S[k2][1] \in {"before", "pass"} => ~HasOnError(S[k2][2])

\* the throwing stack is the whole chain down to the thrower, all awaiting
AllAwaiting(e) ==
    LET S == e.stack
        n == IF e.err.by = "handler" THEN Len(S) - 1 ELSE Len(S)
    IN  /\ e.awaited
        /\ e.err.by \in {"handler", "before"}
        /\ e.err.by = "handler" => n = Len(allMiddlewares)
        /\ \A k \in 1..n : S[k][2] = k /\ S[k][1] \in {"before", "pass"}

UpTo(e) == { i \in 1..(IF e.err.by = "handler" THEN Len(allMiddlewares) ELSE e.mw) :
               HasOnError(i) }

\* C9: the onError invoked for a thrown error is that of the nearest
\* middleware enclosing the thrower that defines one; with every earlier
\* before hook awaiting the continuation that is the latest middleware at or
\* before the failure point that defines onError; an onError further out is
\* invoked only when each nearer one has raised or let the error through, and
\* handleError is entered only when no enclosing onError is left.
C9_Onion ==
    /\ \A q \in At("onError") :
         /\ q > 1
         /\ trace[q - 1].ev = "throw"
         /\ trace[q - 1].err = trace[q].err
         /\ \E k \in 1..Len(trace[q - 1].stack) :
              Catches(trace[q - 1].stack, k, trace[q].mw)
    /\ caught # NoErr =>
         \E p \in Throws :
             /\ trace[p].err = caught
             /\ trace[p].awaited
             /\ \A k \in 1..Len(trace[p].stack) :
                  trace[p].stack[k][1] \in {"before", "pass"} =>
                      ~HasOnError(trace[p].stack[k][2])
    /\ \A p \in Throws :
         AllAwaiting(trace[p]) =>
           IF UpTo(trace[p]) # {}
           THEN CatchEvent(p, Max(UpTo(trace[p])))
           ELSE caught = trace[p].err

C9_Witness ==
    /\ ABC
    /\ pc = "done"
    /\ caught = NoErr
    /\ \E p \in ThrowsBy("handler") :
         /\ AllAwaiting(trace[p])
         /\ CatchEvent(p, 2)
         /\ \E p2 \in ThrowsBy("onError") :
              /\ p2 > p
              /\ trace[p2].mw = 2
              /\ CatchEvent(p2, 1)

(***************************************************************************)
(* SpecLifecycle: registration, start and stop, and the engine settling   *)
(* listen and close either way; `last` keeps the last call made on the     *)
(* server: whether the server was running, the error the call threw and    *)
(* whether it left the route table and the global middlewares as they were *)
(***************************************************************************)
SomeMiddlewares == { Mw(<<"next">>, Absent, Absent), Mw(Absent, Absent, <<"json">>) }
SomeRoutes ==
    [method : {"GET", "POST"}, path : RoutePaths, handler : {<<"send">>},
     middlewares : {<<>>}]

Called(op, err) ==
    last' = [op |-> op, late |-> isRunning, err |-> err,
             same |-> routes' = routes /\ globalMiddlewares' = globalMiddlewares,
             n |-> 0]

CallUse ==
    \E m \in SomeMiddlewares :
        Use(m) /\ Called("use", use(globalMiddlewares, isRunning, m).err)
CallRoute ==
    \E r \in SomeRoutes :
        Route(r) /\ Called("route", route(routes, isRunning, r).err)
CallStart == Start /\ Called("start", start(isRunning).err)
CallStop == Stop /\ Called("stop", NoError)
ListenDone == ListenResolves /\ UNCHANGED last
ListenFailed == ListenRejects /\ UNCHANGED last
CloseDone == CloseResolves /\ UNCHANGED last
CloseFailed == CloseRejects /\ UNCHANGED last

NextLifecycle ==
    \/ CallUse
    \/ CallRoute
    \/ CallStart
    \/ CallStop
    \/ ListenDone
    \/ ListenFailed
    \/ CloseDone
    \/ CloseFailed

SpecLifecycle == Init /\ [][NextLifecycle]_vars

\* C10: while the server is running after start, every route and every use
\* call fails with an error and leaves the route table and the global
\* middleware list unchanged.
C10_Original ==
    (last.op \in {"use", "route"} /\ last.late) =>
      /\ last.err # NoError
      /\ last.same

(***************************************************************************)
(* SpecLookup: route tables built by registration, and findRoute on them   *)
(***************************************************************************)
LookupPaths == {"", "/x", "/x/"}
LookupRoutes ==
    [method : {"GET", "POST"}, path : LookupPaths,
     handler : {<<"send">>, <<"throw">>}, middlewares : {<<>>}]
LookupRequests == [method : {"GET", "POST"}, path : {"/", "/x", "/x/"}]

\* server.route(r), until a lookup has been made
LookupRegister ==
    \E r \in LookupRoutes :
        /\ request = NoRequest
        /\ Len(routes) < MaxTable
        /\ routes' = route(routes, isRunning, r).list
        /\ last' = [NoCall EXCEPT !.op = "route", !.err = route(routes, isRunning, r).err]
        /\ UNCHANGED <<globalMiddlewares, isRunning, engine, responses, atSend, dispatchVars>>

\* this.findRoute(request.method, request.path): `result` keeps the position
Lookup ==
    \E req \in LookupRequests :
        /\ request = NoRequest
        /\ request' = req
        /\ result' = findRoute(routes, req.method, req.path)
        /\ UNCHANGED <<serverVars, probeVars, responses, pc, allMiddlewares, handler,
                       index, threads, caught, cursor, rejected, unhandled, trace>>

NextLookup == LookupRegister \/ Lookup

SpecLookup == Init /\ [][NextLookup]_vars

Equal(r, req) == r.method = req.method /\ r.path = req.path

\* C11: for every table built by registrations and every (method, path),
\* the lookup gives the route of smallest position whose method and path
\* both equal the requested ones, and nothing exactly when there is none;
\* a duplicate registration is accepted and the earlier route wins.
C11_FirstExactMatch ==
    /\ last.op = "route" => last.err = NoError
    /\ request # NoRequest =>
         /\ result = 0 <=> \A i \in 1..Len(routes) : ~Equal(routes[i], request)
         /\ result # 0 =>
              /\ result \in 1..Len(routes)
              /\ Equal(routes[result], request)
              /\ \A j \in 1..(result - 1) : ~Equal(routes[j], request)

C11_Witness ==
    /\ request = [method |-> "GET", path |-> "/x"]
    /\ Len(routes) = 3
    /\ routes[1].path = "/x/" /\ routes[1].method = "GET"
    /\ Equal(routes[2], request) /\ Equal(routes[3], request)
    /\ routes[2].handler # routes[3].handler
    /\ result = 2

(***************************************************************************)
(* Responses created and returned by one dispatch                          *)
(***************************************************************************)
AllRaised == \A q \in Swept : Raised(q)

\* C12 as stated: one dispatch creates exactly one response, whichever way
\* it goes through processRequest.
C12_Original ==
    pc = "done" => Len(responses) = 1

\* C12 amended: one dispatch creates exactly one response when no route
\* matches and when no error escapes the chain; once an error has escaped,
\* it has created the chain's response, one more for each global onError
\* handleError has called, and one more for the 500 answer when every one of
\* them raised (or there was none).
C12_ResponsesCreated ==
    /\ (pc \in {"chain", "sweep", "done"} /\ caught = NoErr) => Len(responses) = 1
    /\ (pc = "sweep" /\ caught # NoErr) => Len(responses) = 1 + Cardinality(Swept)
    /\ (pc = "done" /\ caught # NoErr) =>
         Len(responses) = 1 + Cardinality(Swept) + (IF AllRaised THEN 1 ELSE 0)

C12_Witness ==
    /\ pc = "done"
    /\ caught # NoErr
    /\ Cardinality(Swept) = 2
    /\ AllRaised
    /\ Len(responses) = 4
    /\ result = 4

\* C13 as stated: the response processRequest resolves to is completed,
\* sent and finished both true, whatever the handler and the hooks did.
C13_Original ==
    pc = "done" =>
      /\ responses[result].sent
      /\ responses[result].finished

\* C14: processRequest never invokes the after hook of any middleware: no
\* after hook is ever started or running, whether the chain completes, an
\* onError recovers, handleError sweeps, or no route matches.
C14_AfterNeverInvoked ==
    /\ At("after") = {}
    /\ \A t \in DOMAIN threads : \A k \in DOMAIN threads[t] : threads[t][k].kind # "after"

C14_Witness ==
    /\ pc = "done"
    /\ Len(allMiddlewares) = 2
    /\ \A i \in 1..2 : Defined(allMiddlewares[i].after)
    /\ At("before") # {}
    /\ At("handler") # {}
    /\ handler = <<>>
    /\ ~responses[result].sent

(***************************************************************************)
(* The response on its own: the claims checked under SpecResponse          *)
(***************************************************************************)
Sent == responses[1].sent
Completed == last'.op \in {"send", "json"} /\ last'.err = NoError

\* C15: a new response has sent and finished both false; sent becomes true
\* through a send or json that succeeds and in no other way; once true it
\* stays true; and finished equals sent in every state.
C15_StateMachine ==
    [][ /\ last.n = 0 => (~Sent /\ ~responses[1].finished)
        /\ responses[1].finished = Sent
        /\ responses'[1].finished = Sent'
        /\ Sent => Sent'
        /\ (~Sent /\ Sent') => Completed
        /\ (~Sent /\ Completed) => Sent' ]_vars

C15_Witness ==
    /\ Sent /\ responses[1].finished
    /\ last.op = "json" /\ ~last.late /\ last.n = 2

(***************************************************************************)
(* SpecCalls: one response, with `trace` keeping every call made on it and *)
(* its arguments, and every headers object read from it                    *)
(***************************************************************************)
\* the internal object handed out in place of a copy
headersGetterShared(r) == [shared |-> TRUE, value |-> r.headers]

\* what `get headers()` hands out: a new object holding the entries
headersGetter(r) == [shared |-> FALSE, value |-> r.headers]

Made(op, code, name, value, data, err) ==
    [op |-> op, code |-> code, name |-> name, value |-> value, data |-> data,
     err |-> err, shared |-> FALSE]

Log(entry, r) ==
    /\ Len(trace) < MaxOps
    /\ trace' = Append(trace, entry)
    /\ responses' = <<r>>
    /\ UNCHANGED <<serverVars, probeVars, pc, request, allMiddlewares, handler, index,
                   threads, caught, cursor, result, rejected, unhandled>>

CallSetStatus ==
    \E c \in StatusCodes :
        LET out == setStatus(responses[1], c)
        IN  Log(Made("setStatus", c, "", "", Undefined, out.err), out.r)
CallSetHeader ==
    \E n \in HeaderNames, v \in HeaderValues :
        LET out == setHeader(responses[1], n, v)
        IN  Log(Made("setHeader", Unset, n, v, Undefined, out.err), out.r)
CallSend ==
    \E d \in Bodies :
        LET out == send(responses[1], d)
        IN  Log(Made("send", Unset, "", "", d, out.err), out.r)
CallJson ==
    \E d \in Bodies :
        LET out == json(responses[1], d)
        IN  Log(Made("json", Unset, "", "", d, out.err), out.r)

\* `response.headers` is read
ReadHeaders ==
    Log([Made("headers", Unset, "", "", Undefined, NoError)
            EXCEPT !.shared = headersGetter(responses[1]).shared],
        responses[1])

Remove(h, name) == [n \in DOMAIN h \ {name} |-> h[n]]
Reads == { p \in 1..Len(trace) : trace[p].op = "headers" }

\* The caller writes or deletes a key of the headers object it read last; the
\* response's own entries change with it only when the object is shared.
MutateHeaders ==
    /\ Reads # {}
    /\ \E n \in HeaderNames :
         \/ Log(Made("mutate", Unset, n, "changed", Undefined, NoError),
                IF trace[Max(Reads)].shared
                THEN [responses[1] EXCEPT !.headers = Put(@, n, "changed")]
                ELSE responses[1])
         \/ Log(Made("delete", Unset, n, "", Undefined, NoError),
                IF trace[Max(Reads)].shared
                THEN [responses[1] EXCEPT !.headers = Remove(@, n)]
                ELSE responses[1])

NextCalls ==
    \/ CallSetStatus
    \/ CallSetHeader
    \/ CallSend
    \/ CallJson
    \/ ReadHeaders
    \/ MutateHeaders

SpecCalls == InitResponse /\ [][NextCalls]_vars

Front(s) == SubSeq(s, 1, Len(s) - 1)
Newest(s) == s[Len(s)]

\* What the calls of a log add up to, as the response builder's contract
\* has it: nothing counts once a send or json has been made.
RECURSIVE Expected(_)
Expected(log) ==
    IF log = <<>>
    THEN [status |-> 200, headers |-> NoHeaders, body |-> Undefined, sent |-> FALSE,
          set |-> FALSE]
    ELSE LET e == Expected(Front(log))
             c == Newest(log)
         IN  IF e.sent THEN e
             ELSE CASE c.op = "setStatus" -> [e EXCEPT !.status = c.code, !.set = TRUE]
                    [] c.op = "setHeader" -> [e EXCEPT !.headers = Put(@, c.name, c.value)]
                    [] c.op = "send" -> [e EXCEPT !.body = c.data, !.sent = TRUE]
                    [] c.op = "json" ->
                         [e EXCEPT !.headers = Put(@, "content-type", "application/json"),
                                   !.body = c.data, !.sent = TRUE]
                    [] OTHER -> e

\* C16: with setStatus never called the status reads 200, before a send and
\* after it; with setStatus(c) the last one to succeed before the send, the
\* status reads c after the send; and the body read is the argument of send.
C16_StatusAndBody ==
    /\ getStatus(responses[1]) = Expected(trace).status
    /\ ~Expected(trace).set => getStatus(responses[1]) = 200
    /\ getBody(responses[1]) = Expected(trace).body

C16_Witness ==
    /\ Len(trace) = 3
    /\ trace[1].op = "setStatus" /\ trace[1].code = 201
    /\ trace[2].op = "setStatus" /\ trace[2].code = 404
    /\ trace[3].op = "send" /\ trace[3].data = Str("Root")
    /\ getStatus(responses[1]) = 404
    /\ responses[1].sent

AfterSend(p) == \E q \in 1..(p - 1) : trace[q].op \in {"send", "json"}

\* C17 as stated: on a response already sent, send and json both fail with
\* the already-sent error, which is not the error setStatus and setHeader
\* fail with on a sent response.
C17_Original ==
    \A p \in 1..Len(trace) :
        AfterSend(p) =>
          /\ trace[p].op \in {"send", "json"} => trace[p].err = ErrAlreadySent
          /\ trace[p].op \in {"setStatus", "setHeader"} =>
               trace[p].err \notin {NoError, ErrAlreadySent}

\* C18: the headers read from a response are a copy: writing or deleting
\* keys of an object read earlier changes nothing of what is read later; the
\* entries change only by setHeader and json on a response not yet sent, the
\* last write to a key winning, keys told apart by case.
C18_HeadersCopy ==
    getHeaders(responses[1]) = Expected(trace).headers

C18_Witness ==
    /\ Len(trace) = 3
    /\ trace[1].op = "setHeader" /\ trace[1].name = "Content-Type"
    /\ trace[2].op = "headers"
    /\ trace[3].op = "delete" /\ trace[3].name = "Content-Type"
    /\ DOMAIN getHeaders(responses[1]) = {"Content-Type"}

JsonMade == Len(trace') = Len(trace) + 1 /\ Newest(trace').op = "json"

\* C19: json on a response not yet sent sets the header content-type to
\* application/json, over any value it had, leaves the other headers, stores
\* the body as given and marks the response sent; json on a sent response
\* changes neither the headers nor the body.
C19_Json ==
    [][ JsonMade =>
          IF responses[1].sent
          THEN /\ getHeaders(responses'[1]) = getHeaders(responses[1])
               /\ getBody(responses'[1]) = getBody(responses[1])
          ELSE /\ DOMAIN getHeaders(responses'[1]) =
                     DOMAIN getHeaders(responses[1]) \cup {"content-type"}
               /\ \A n \in DOMAIN getHeaders(responses'[1]) :
                      getHeaders(responses'[1])[n] =
                          IF n = "content-type" THEN "application/json"
                          ELSE getHeaders(responses[1])[n]
               /\ getBody(responses'[1]) = Newest(trace').data
               /\ responses'[1].sent ]_vars

C19_Witness ==
    /\ Len(trace) = 3
    /\ trace[1].op = "setHeader" /\ trace[1].name = "content-type"
    /\ trace[1].value = "text/plain"
    /\ trace[2].op = "setHeader" /\ trace[2].name = "Content-Type"
    /\ trace[3].op = "json" /\ trace[3].data = ErrorBody("oops")
    /\ getHeaders(responses[1])["content-type"] = "application/json"
    /\ getBody(responses[1]) = ErrorBody("oops")

Writes(script) == \E k \in 1..Len(script) : script[k] \in {"send", "json", "status"}
NothingWrites ==
    /\ ~Writes(handler)
    /\ \A i \in 1..Len(allMiddlewares) :
         /\ HasBefore(i) => ~Writes(allMiddlewares[i].before)
         /\ HasOnError(i) => ~Writes(allMiddlewares[i].onError)

\* C20: when no error escapes the chain, processRequest resolves to the very
\* response every before hook, every onError of the chain and the handler
\* were given, with what they wrote to it and nothing else: for the route
\* GET "/" whose handler calls send("Root"), status 200, body "Root", sent.
C20_SameResponse ==
    (pc = "done" /\ ~NoMatch /\ caught = NoErr) =>
      /\ result = 1
      /\ \A p \in 1..Len(trace) :
           trace[p].ev \in {"before", "onError", "handler"} => trace[p].res = result
      /\ NothingWrites => responses[result] = createResponse
      /\ (allMiddlewares = <<>> /\ handler = <<"send">>) =>
           /\ getStatus(responses[result]) = 200
           /\ getBody(responses[result]) = Str("Root")
           /\ getHeaders(responses[result]) = NoHeaders
           /\ responses[result].sent

C20_Witness ==
    /\ pc = "done"
    /\ caught = NoErr
    /\ request = [method |-> "GET", path |-> "/"]
    /\ ~NoMatch
    /\ Matched.path = "/"
    /\ allMiddlewares = <<>>
    /\ handler = <<"send">>
    /\ At("handler") # {}
    /\ getBody(responses[result]) = Str("Root")

(***************************************************************************)
(* SpecConcurrent: several processRequest calls in flight at once.  The    *)
(* variables of Spec hold the locals of the call taking steps; `parked`    *)
(* holds the locals of the calls waiting at an await, and of the calls     *)
(* that were made with no other call in flight.                            *)
(***************************************************************************)
ConcurrentKinds ==
    { Mw(<<"next">>, Absent, Absent),
      Mw(<<"throw">>, Absent, <<"json">>),
      Mw(<<"next">>, Absent, <<"throw">>),
      Mw(Absent, Absent, <<"json">>) }
ConcurrentRoutes ==
    [method : RouteMethods, path : {"/"}, handler : {<<"send">>, <<"throw">>},
     middlewares : {<<>>, <<Mw(<<"next">>, Absent, <<"json">>)>>}]

\* a server that has registered its middlewares and one route and is listening
InitConcurrent ==
    /\ globalMiddlewares \in SeqsUpTo(ConcurrentKinds, MaxGlobal)
    /\ routes \in { <<r>> : r \in ConcurrentRoutes }
    /\ isRunning = TRUE
    /\ engine = [EngineIdle EXCEPT !.listening = TRUE]
    /\ NoDispatch
    /\ responses = <<>>
    /\ last = NoCall
    /\ atSend = NoSnapshot

\* the locals of the call taking steps
Locals ==
    [request |-> request, allMiddlewares |-> allMiddlewares, handler |-> handler,
     now |-> Now]
NoLocals ==
    [request |-> NoRequest, allMiddlewares |-> <<>>, handler |-> <<>>,
     now |-> [responses |-> <<>>, pc |-> "idle", index |-> 0, threads |-> <<>>,
              caught |-> NoErr, cursor |-> 0, result |-> 0, rejected |-> FALSE,
              unhandled |-> 0, trace |-> <<>>]]

\* the cursor of the call that ran last, in place of the call's own
resumeSharedCursor(own, running) == [own EXCEPT !.now.index = running.now.index]

\* What a call goes on with after an await: `index`, `response` and
\* `allMiddlewares` are locals of its executeMiddlewareChain call, kept by
\* its own `next` closure.
resume(own, running) == own

GoOn(c) ==
    /\ request' = c.request
    /\ allMiddlewares' = c.allMiddlewares
    /\ handler' = c.handler
    /\ Becomes(c.now)

Waiting == { i \in 1..Len(parked) : parked[i].role = "waiting" }
Alone == { i \in 1..Len(parked) : parked[i].role = "alone" }

\* a call made with no other call in flight has resolved: it is kept
KeepAlone ==
    /\ pc = "done"
    /\ Waiting = {}
    /\ \A i \in Alone : parked[i].locals.request # request
    /\ parked' = Append(parked, [role |-> "alone", locals |-> Locals])
    /\ GoOn(NoLocals)
    /\ UNCHANGED <<serverVars, last, atSend, heap>>

\* the call in flight waits at an await and the engine may call processRequest again
Park ==
    /\ pc \in {"chain", "sweep"}
    /\ Cardinality(Waiting) < MaxInFlight - 1
    /\ parked' = Append(parked, [role |-> "waiting", locals |-> Locals])
    /\ GoOn(NoLocals)
    /\ UNCHANGED <<serverVars, last, atSend, heap>>

\* the call taking steps waits (or has resolved) and a waiting one goes on
Swap ==
    \E i \in Waiting :
        /\ pc # "idle"
        /\ parked[i].locals.now.pc \in {"chain", "sweep"}
        /\ parked' = [parked EXCEPT ![i].locals = Locals]
        /\ GoOn(resume(parked[i].locals, Locals))
        /\ UNCHANGED <<serverVars, last, atSend, heap>>

NextConcurrent ==
    \/ Dispatch
    \/ AwaitNext
    \/ Throw
    \/ WriteResponse
    \/ ReturnFromHook
    \/ KeepAlone
    \/ Park
    \/ Swap

SpecConcurrent == InitConcurrent /\ [][NextConcurrent]_vars

IsPrefix(s, t) == Len(s) <= Len(t) /\ SubSeq(t, 1, Len(s)) = s
SameAsAlone(c, a) ==
    c.request = a.request =>
      /\ IsPrefix(c.now.trace, a.now.trace)
      /\ c.now.pc = "done" => c.now = a.now

\* C21: with several processRequest calls in flight, interleaved at their
\* awaits in any way, the hooks and the handler run for a call, their order,
\* the responses it creates and the one it resolves to are those of the same
\* request dispatched with no other call in flight.
C21_Independent ==
    \A i \in Alone :
        /\ pc # "idle" => SameAsAlone(Locals, parked[i].locals)
        /\ \A j \in Waiting : SameAsAlone(parked[j].locals, parked[i].locals)

C21_Witness ==
    /\ pc = "done"
    /\ caught # NoErr
    /\ \E i \in Alone : parked[i].locals.request = request
    /\ \E j \in Waiting :
         /\ parked[j].locals.request = request
         /\ parked[j].locals.now.pc = "chain"
         /\ Len(parked[j].locals.now.trace) = 2

(***************************************************************************)
(* RouteGroup.  A prefix is kept as its characters, a route path as a      *)
(* string; `trace` keeps the calls made, each with the group it was made   *)
(* on and the group it made.                                               *)
(***************************************************************************)
RECURSIVE Join(_)
Join(cs) == IF cs = <<>> THEN "" ELSE cs[1] \o Join(Tail(cs))

NoGroup == [prefix |-> <<>>, routes |-> <<>>, middlewares |-> <<>>, made |-> FALSE]

normalizePrefix(prefix) ==
    LET p == IF prefix = <<>> \/ prefix[1] # "/" THEN <<"/">> \o prefix ELSE prefix
    IN  IF Len(p) > 1 /\ p[Len(p)] = "/" THEN SubSeq(p, 1, Len(p) - 1) ELSE p

\* `${route.method}:${this.prefix}${route.path}`
routeKey(prefix, r) == r.method \o ":" \o Join(prefix) \o r.path

\* no check for duplicates at all
validateRoutesNothing(prefix, rs) == NoError

\* the error validateRoutes throws: the first route whose key was seen before
validateRoutes(prefix, rs) ==
    LET seen == { j \in 1..Len(rs) :
                    \E i \in 1..(j - 1) : routeKey(prefix, rs[i]) = routeKey(prefix, rs[j]) }
    IN  IF seen = {} THEN NoError
        ELSE "Duplicate route detected: " \o routeKey(prefix, rs[Min(seen)])

\* new RouteGroup(prefix, routes, middlewares): the group made and the error thrown
RouteGroup(prefix, rs, mws) ==
    LET p == normalizePrefix(prefix)
    IN  IF validateRoutes(p, rs) # NoError
        THEN [group |-> NoGroup, err |-> validateRoutes(p, rs)]
        ELSE [group |-> [prefix |-> p, routes |-> rs, middlewares |-> mws, made |-> TRUE],
              err |-> NoError]

addRoute(g, r) ==
    IF \E i \in 1..Len(g.routes) : routeKey(g.prefix, g.routes[i]) = routeKey(g.prefix, r)
    THEN [group |-> NoGroup, err |-> "Route already exists: " \o routeKey(g.prefix, r)]
    ELSE RouteGroup(g.prefix, Append(g.routes, r), g.middlewares)

groupUse(g, middleware) == RouteGroup(g.prefix, g.routes, Append(g.middlewares, middleware))

getPrefixedRoutesOwnFirst(g) ==
    [i \in 1..Len(g.routes) |->
        [g.routes[i] EXCEPT !.path = Join(g.prefix) \o @,
                            !.middlewares = @ \o g.middlewares]]

getPrefixedRoutes(g) ==
    [i \in 1..Len(g.routes) |->
        [g.routes[i] EXCEPT !.path = Join(g.prefix) \o @,
                            !.middlewares = g.middlewares \o @]]

(***************************************************************************)
(* SpecGroup: a group is constructed, then addRoute and use are called on  *)
(* any group made so far                                                   *)
(***************************************************************************)
PrefixInputs ==
    { <<>>, <<"a">>, <<"/">>, <<"/", "a">>, <<"/", "a", "/">>, <<"/", "a", "/", "/">> }
GroupMiddlewares == { Mw(<<"next">>, Absent, Absent), Mw(Absent, Absent, <<"json">>) }
GroupRoutes ==
    { [method |-> m, path |-> p, handler |-> <<"send">>,
       middlewares |-> IF p = "" THEN <<>> ELSE <<Mw(<<"send">>, Absent, Absent)>>] :
      m \in {"GET", "POST"}, p \in {"", "/x"} }

GroupCall(op, prefix, rs, on, out) ==
    /\ Len(trace) < MaxGroupCalls
    /\ trace' = Append(trace, [op |-> op, prefix |-> prefix, routes |-> rs, on |-> on,
                               made |-> out.group, err |-> out.err])
    /\ UNCHANGED <<serverVars, probeVars, responses, pc, request, allMiddlewares, handler,
                   index, threads, caught, cursor, result, rejected, unhandled>>

MadeAt == { p \in 1..Len(trace) : trace[p].made.made }

GroupNew ==
    /\ trace = <<>>
    /\ \E prefix \in PrefixInputs, rs \in SeqsUpTo(GroupRoutes, MaxGroupRoutes) :
         GroupCall("new", prefix, rs, NoGroup, RouteGroup(prefix, rs, <<>>))

GroupAddRoute ==
    \E p \in MadeAt, r \in GroupRoutes :
        GroupCall("addRoute", <<>>, <<r>>, trace[p].made, addRoute(trace[p].made, r))

GroupUse ==
    \E p \in MadeAt, m \in GroupMiddlewares :
        GroupCall("use", <<>>, <<>>, trace[p].made, groupUse(trace[p].made, m))

NextGroup == GroupNew \/ GroupAddRoute \/ GroupUse

SpecGroup == Init /\ [][NextGroup]_vars

SameRoute(r1, r2) == r1.method = r2.method /\ r1.path = r2.path
Duplicates(rs) == \E i, j \in 1..Len(rs) : i # j /\ SameRoute(rs[i], rs[j])
PrefixedDuplicates(g) ==
    \E i, j \in 1..Len(g.routes) :
        /\ i # j
        /\ g.routes[i].method = g.routes[j].method
        /\ Join(g.prefix) \o g.routes[i].path = Join(g.prefix) \o g.routes[j].path

C25_Original ==
    \A p \in MadeAt :
        /\ trace[p].made.prefix # <<>>
        /\ trace[p].made.prefix[1] = "/"
        /\ (trace[p].made.prefix[Len(trace[p].made.prefix)] = "/") =>
               trace[p].made.prefix = <<"/">>

\* ---------------------------------------------------------------------
\* Registration of routes in the server: a route, a list of routes or a
\* route group (server.route), then the lookup of a request and the list
\* of middlewares its dispatch would run.

routeListAsIs(rs, running, list) ==
    IF running THEN [list |-> rs, err |-> ErrRoutesAfterStart]
    ELSE [list |-> rs \o list, err |-> NoError]

\* server.route, Array.isArray(routeInput)
routeList(rs, running, list) ==
    IF running THEN [list |-> rs, err |-> ErrRoutesAfterStart]
    ELSE [list |-> rs \o [i \in 1..Len(list) |-> normalizePath(list[i])], err |-> NoError]

\* server.route, isRouteGroup(routeInput)
routeGroup(rs, running, g) ==
    IF running THEN [list |-> rs, err |-> ErrRoutesAfterStart]
    ELSE [list |-> rs \o getPrefixedRoutes(g), err |-> NoError]

MaxGroupMiddlewares == 2
MaxRegistrations == 2

RegisterGlobals == { Mw(<<"next">>, Absent, Absent), Mw(<<"next">>, Absent, <<"json">>) }
RegisterScoped == { Mw(<<"throw">>, Absent, <<"json">>), Mw(Absent, Absent, <<"json">>) }
RegisterOwn == <<Mw(<<"send">>, Absent, Absent), Mw(<<"next">>, Absent, <<"throw">>)>>
RegisterRoutes ==
    { [method |-> "GET", path |-> "", handler |-> <<"send">>, middlewares |-> <<>>],
      [method |-> "GET", path |-> "/x", handler |-> <<"send">>, middlewares |-> RegisterOwn] }
RegisterPrefixes == { <<>>, <<"/", "a">> }
RegisterGroups ==
    { g \in { RouteGroup(p, rs, mws).group :
                p \in RegisterPrefixes,
                rs \in SeqsUpTo(RegisterRoutes, MaxGroupRoutes),
                mws \in { m \in SeqsUpTo(RegisterScoped, MaxGroupMiddlewares) :
                            \A i, j \in DOMAIN m : m[i] = m[j] => i = j } } : g.made }
RegisterRequests == [method : {"GET"}, path : {"/", "/x", "/a", "/a/x"}]

Registered(op, prefix, supplied, mws, table) ==
    /\ request = NoRequest
    /\ Len(trace) < MaxRegistrations
    /\ Len(table) <= MaxTable
    /\ routes' = table
    /\ trace' = Append(trace, [op |-> op, prefix |-> prefix, routes |-> supplied,
                               middlewares |-> mws])
    /\ UNCHANGED <<globalMiddlewares, isRunning, engine, responses, probeVars, pc, request,
                   allMiddlewares, handler, index, threads, caught, cursor, result, rejected,
                   unhandled>>

RegisterUse ==
    \E m \in RegisterGlobals :
        /\ request = NoRequest
        /\ Len(globalMiddlewares) < MaxGlobal
        /\ globalMiddlewares' = use(globalMiddlewares, isRunning, m).list
        /\ UNCHANGED <<routes, isRunning, engine, responses, probeVars, dispatchVars>>

RegisterSingle ==
    \E r \in RegisterRoutes :
        Registered("route", <<>>, <<r>>, <<>>, route(routes, isRunning, r).list)

RegisterList ==
    \E rs \in SeqsUpTo(RegisterRoutes, MaxGroupRoutes) :
        Registered("list", <<>>, rs, <<>>, routeList(routes, isRunning, rs).list)

RegisterGroup ==
    \E g \in RegisterGroups :
        Registered("group", g.prefix, g.routes, g.middlewares, routeGroup(routes, isRunning, g).list)

\* processRequest up to the list of middlewares of executeMiddlewareChain
Chain ==
    \E req \in RegisterRequests :
        /\ request = NoRequest
        /\ request' = req
        /\ result' = findRoute(routes, req.method, req.path)
        /\ allMiddlewares' =
               IF findRoute(routes, req.method, req.path) = 0 THEN <<>>
               ELSE combine(globalMiddlewares,
                            routes[findRoute(routes, req.method, req.path)].middlewares)
        /\ UNCHANGED <<serverVars, probeVars, responses, pc, handler, index, threads, caught,
                       cursor, rejected, unhandled, trace>>

NextRegister == RegisterUse \/ RegisterSingle \/ RegisterList \/ RegisterGroup \/ Chain

SpecRegister == Init /\ [][NextRegister]_vars

\* the routes supplied so far, in order, each with the call that supplied it
RECURSIVE Supplied(_)
Supplied(log) ==
    IF log = <<>> THEN <<>>
    ELSE Supplied(SubSeq(log, 1, Len(log) - 1)) \o
         [i \in 1..Len(log[Len(log)].routes) |->
             [call |-> log[Len(log)], route |-> log[Len(log)].routes[i]]]

\* C23: after any registrations the table holds one route per route
\* supplied, none with an empty path, and a route supplied alone or in a
\* list with path "" is stored with path "/".
C23_NoEmptyPath ==
    /\ Len(routes) = Len(Supplied(trace))
    /\ \A k \in DOMAIN routes :
        /\ routes[k].path # ""
        /\ (Supplied(trace)[k].call.op # "group" /\ Supplied(trace)[k].route.path = "") =>
               routes[k].path = "/"

C23_Witness ==
    /\ \E i \in DOMAIN trace :
        trace[i].op = "list" /\ \E k \in DOMAIN trace[i].routes : trace[i].routes[k].path = ""
    /\ \E i \in DOMAIN trace :
        trace[i].op = "group" /\ \E k \in DOMAIN trace[i].routes : trace[i].routes[k].path = ""
    /\ Len(routes) = MaxTable

\* C24: the middlewares a dispatch runs are the global ones in order of
\* registration, then the matched route's group's, then the route's own.
C24_Order ==
    (request # NoRequest /\ result # 0) =>
        allMiddlewares = globalMiddlewares \o Supplied(trace)[result].call.middlewares
                                           \o Supplied(trace)[result].route.middlewares

C24_Witness ==
    /\ request # NoRequest
    /\ result # 0
    /\ Supplied(trace)[result].call.op = "group"
    /\ Len(globalMiddlewares) = 2
    /\ Len(Supplied(trace)[result].call.middlewares) = 2
    /\ Len(Supplied(trace)[result].route.middlewares) = 2
    /\ Len(allMiddlewares) = 6

\* ---------------------------------------------------------------------
\* The engines: HttpEngine (HTTP/1.1) and Http2Engine.  One inbound
\* request is converted to a request of the framework, handed to the
\* request handler, and the response it returns is written to the
\* transport.  `trace` is what happens on the transport: the inbound
\* request first, then every call the engine makes on `res` or `stream`.

Buf(b) == [kind |-> "buffer", val |-> b]
LowerLetters == <<"a", "b", "c", "d", "e", "g", "h", "i", "l", "n", "o", "p", "r", "s", "t", "u", "w">>
UpperLetters == <<"A", "B", "C", "D", "E", "G", "H", "I", "L", "N", "O", "P", "R", "S", "T", "U", "W">>

\* String.prototype.toUpperCase, on the letters in use
toUpperCase(chars) ==
    [i \in DOMAIN chars |->
        IF \E k \in DOMAIN LowerLetters : LowerLetters[k] = chars[i]
        THEN UpperLetters[CHOOSE k \in DOMAIN LowerLetters : LowerLetters[k] = chars[i]]
        ELSE chars[i]]

validMethods == {"GET", "POST", "PUT", "PATCH", "DELETE", "HEAD", "OPTIONS", "TRACE", "CONNECT"}
ErrUnsupportedMethod(method) == "Unsupported HTTP method: " \o Join(method)

normalizeHttpMethodAny(method) == [method |-> Join(toUpperCase(method)), err |-> NoError]

normalizeHttpMethod(method) ==
    IF Join(toUpperCase(method)) \notin validMethods
    THEN [method |-> "", err |-> ErrUnsupportedMethod(method)]
    ELSE [method |-> Join(toUpperCase(method)), err |-> NoError]

\* createRequestFromHttp / createRequestFromHeaders: the method and the path
createRequest(method) ==
    LET m == normalizeHttpMethod(IF method = <<>> THEN <<"G", "E", "T">> ELSE method)
    IN  [request |-> [method |-> m.method, path |-> "/"], err |-> m.err]

Ev(op, status, headers, body) == [op |-> op, status |-> status, headers |-> headers, body |-> body]

stringify(body) == "{\"error\":\"" \o body.val \o "\"}"   \* JSON.stringify

\* HttpEngine.sendResponse: the calls on `res`
sendResponseHttp(response) ==
    <<Ev("statusCode", IF response.status = 0 THEN 200 ELSE response.status, NoHeaders, ""),
      Ev("setHeader", 0, response.headers, "")>>
    \o (IF response.body = Undefined THEN <<>>
        ELSE IF response.body.kind \in {"string", "buffer"}
        THEN <<Ev("write", 0, NoHeaders, response.body.val)>>
        ELSE (IF "content-type" \in DOMAIN response.headers THEN <<>>
              ELSE <<Ev("setHeader", 0, Put(NoHeaders, "Content-Type", "application/json"), "")>>)
             \o <<Ev("write", 0, NoHeaders, stringify(response.body))>>)
    \o <<Ev("end", 0, NoHeaders, "")>>

\* Http2Engine.sendResponse: the calls on `stream`, up to the second
\* stream.respond, which ends them when it throws
sendResponseHttp2(response, throws) ==
    <<Ev("respond", IF response.status = 0 THEN 200 ELSE response.status, response.headers, "")>>
    \o (IF response.body = Undefined THEN <<Ev("end", 0, NoHeaders, "")>>
        ELSE IF response.body.kind \in {"string", "buffer"}
        THEN <<Ev("write", 0, NoHeaders, response.body.val), Ev("end", 0, NoHeaders, "")>>
        ELSE <<Ev("write", 0, NoHeaders, stringify(response.body))>>
             \o (IF "content-type" \in DOMAIN response.headers
                 THEN <<Ev("end", 0, NoHeaders, "")>>
                 ELSE <<Ev("respond", IF response.status = 0 THEN 200 ELSE response.status,
                           Put(NoHeaders, "content-type", "application/json"), "")>>
                      \o (IF throws THEN <<>> ELSE <<Ev("end", 0, NoHeaders, "")>>)))

\* the catch block of the 'request' and 'stream' listeners
engineCatch(kind, message) ==
    IF kind = "http"
    THEN <<Ev("writeHead", 500, Put(NoHeaders, "Content-Type", "text/plain"), ""),
           Ev("end", 0, NoHeaders, message)>>
    ELSE <<Ev("respond", 500, NoHeaders, ""), Ev("end", 0, NoHeaders, message)>>

EngineKinds == {"http", "http2"}
InboundMethods ==
    { <<>>, <<"G", "E", "T">>, <<"g", "e", "t">>, <<"P", "o", "s", "t">>,
      <<"d", "e", "l", "e", "t", "e">>, <<"P", "U", "R", "G", "E">>, <<"b", "r", "e", "w">> }
EngineResponses ==
    [status : {0, 200, 404},
     headers : { NoHeaders, Put(NoHeaders, "content-type", "text/plain"),
                 Put(NoHeaders, "x-a", "1") },
     body : { Undefined, Str("hi"), Buf("bytes"), ErrorBody("no") }]
ErrHeadersSent == "ERR_HTTP2_HEADERS_SENT"

engineVars == <<serverVars, responses, parked, heap, handler, index, threads, caught, cursor,
                result, allMiddlewares, unhandled>>

\* a request arrives; the catch block answers one whose method is refused
EngineRequest ==
    \E kind \in EngineKinds, method \in InboundMethods :
        /\ pc = "idle"
        /\ trace = <<>>
        /\ last' = [NoCall EXCEPT !.op = kind, !.err = createRequest(method).err]
        /\ IF createRequest(method).err # NoError
           THEN /\ trace' = <<Ev("request", 0, NoHeaders, method)>>
                            \o engineCatch(kind, createRequest(method).err)
                /\ pc' = "done"
                /\ UNCHANGED request
           ELSE /\ trace' = <<Ev("request", 0, NoHeaders, method)>>
                /\ request' = createRequest(method).request
                /\ pc' = "handler"
        /\ UNCHANGED <<engineVars, atSend, rejected>>

\* await this.requestHandler(request) gives a response
EngineHandlerReturns ==
    \E response \in EngineResponses :
        /\ pc = "handler"
        /\ atSend' = response
        /\ pc' = "send"
        /\ UNCHANGED <<engineVars, request, last, trace, rejected>>

\* await this.requestHandler(request) rejects
EngineHandlerThrows ==
    /\ pc = "handler"
    /\ last' = [last EXCEPT !.err = "boom"]
    /\ trace' = trace \o engineCatch(last.op, "boom")
    /\ pc' = "done"
    /\ UNCHANGED <<engineVars, request, atSend, rejected>>

\* await this.sendResponse(res, response)
EngineSendHttp ==
    /\ pc = "send"
    /\ last.op = "http"
    /\ trace' = trace \o sendResponseHttp(atSend)
    /\ pc' = "done"
    /\ UNCHANGED <<engineVars, request, atSend, last, rejected>>

\* await this.sendResponse(stream, response); a second stream.respond may
\* throw, and then the catch block calls stream.respond once more
EngineSendHttp2 ==
    \E throws \in BOOLEAN :
        /\ pc = "send"
        /\ last.op = "http2"
        /\ pc' = "done"
        /\ IF throws /\ Len(SelectSeq(sendResponseHttp2(atSend, throws),
                                      LAMBDA e : e.op = "respond")) > 1
           THEN /\ trace' = trace \o sendResponseHttp2(atSend, TRUE)
                                  \o <<Ev("respond", 500, NoHeaders, "")>>
                /\ last' = [last EXCEPT !.err = ErrHeadersSent]
                /\ rejected' = TRUE
           ELSE /\ trace' = trace \o sendResponseHttp2(atSend, FALSE)
                /\ UNCHANGED <<last, rejected>>
        /\ UNCHANGED <<engineVars, request, atSend>>

NextEngine ==
    EngineRequest \/ EngineHandlerReturns \/ EngineHandlerThrows \/ EngineSendHttp
        \/ EngineSendHttp2

SpecEngine == Init /\ [][NextEngine]_vars

Inbound == IF trace[1].body = <<>> THEN <<"G", "E", "T">> ELSE trace[1].body

\* C26: in both engines the request handler is only ever given one of the
\* nine verbs, upper-cased; a request with any other method gets the
\* unsupported-method error in the engine and never reaches the handler.
C26_ValidMethods ==
    /\ request # NoRequest =>
           request.method \in {"GET", "POST", "PUT", "PATCH", "DELETE", "HEAD", "OPTIONS",
                               "TRACE", "CONNECT"}
    /\ (trace # <<>> /\ Inbound \in {<<"P", "U", "R", "G", "E">>, <<"b", "r", "e", "w">>}) =>
           /\ request = NoRequest
           /\ atSend = NoSnapshot
           /\ last.err = "Unsupported HTTP method: " \o Join(trace[1].body)
    /\ (trace # <<>> /\ Inbound = <<"g", "e", "t">>) => request.method = "GET"
    /\ (trace # <<>> /\ Inbound = <<"P", "o", "s", "t">>) => request.method = "POST"
    /\ (trace # <<>> /\ Inbound = <<"d", "e", "l", "e", "t", "e">>) => request.method = "DELETE"

C26_Witness ==
    /\ pc = "done"
    /\ last.op = "http2"
    /\ trace[1].body = <<"b", "r", "e", "w">>
    /\ last.err = "Unsupported HTTP method: brew"
    /\ request = NoRequest

Responds == SelectSeq(trace, LAMBDA e : e.op = "respond")
BodyObject == pc = "done" /\ atSend # NoSnapshot /\ atSend.body.kind = "object"
FirstWrite == CHOOSE i \in DOMAIN trace : trace[i].op = "write" /\
                  \A j \in 1..(i - 1) : trace[j].op # "write"
\* the header block delivered: for HTTP/1.1 what was set before the first
\* write (names are case-insensitive), for HTTP/2 the first stream.respond
Delivered ==
    IF last.op = "http2" THEN DOMAIN Responds[1].headers
    ELSE UNION { { IF n = "Content-Type" THEN "content-type" ELSE n : n \in DOMAIN trace[i].headers } :
                 i \in { j \in 1..FirstWrite : trace[j].op = "setHeader" } }

\* C27 as stated: a response whose body is neither a string nor a buffer
\* is delivered with a content-type header, the header block is emitted
\* once and before any body bytes, and stream.respond is called at most
\* once per stream.
C27_Original ==
    BodyObject =>
        /\ "content-type" \in Delivered
        /\ Len(Responds) <= 1
        /\ \A i \in DOMAIN trace :
               trace[i].op \in {"respond", "setHeader", "statusCode"} => i < FirstWrite

\* ---------------------------------------------------------------------
\* SpecStartStop: the calls of the lifecycle (route, setEngine, start,
\* stop) and the engine settling listen and close either way; `last`
\* keeps the last call made or settled, with the error it threw or
\* rejected with.

ErrEngineRunning == "Cannot change engine while server is running"
ErrListen == "listen failed"
ErrClose == "close failed"

setEngineAnyTime(running, current, new) == [engine |-> new, err |-> NoError]

setEngine(running, current, new) ==
    IF running THEN [engine |-> current, err |-> ErrEngineRunning]
    ELSE [engine |-> new, err |-> NoError]

\* setEngine(engine); an engine is replaced when nothing is pending on it
CallSetEngine ==
    /\ pc = "idle"
    /\ isRunning \/ (engine.listens = 0 /\ engine.closes = 0)
    /\ engine' = setEngine(isRunning, engine, EngineIdle).engine
    /\ UNCHANGED <<globalMiddlewares, routes, isRunning, responses, atSend, dispatchVars>>
    /\ Called("setEngine", setEngine(isRunning, engine, EngineIdle).err)

Settled(op, err) ==
    last' = [op |-> op, late |-> isRunning, err |-> err, same |-> TRUE, n |-> 0]

StartResolves == ListenResolves /\ Settled("start resolves", NoError)
StartRejects == ListenRejects /\ Settled("start rejects", ErrListen)
StopResolves == CloseResolves /\ Settled("stop resolves", NoError)
StopRejects == CloseRejects /\ Settled("stop rejects", ErrClose)

NextStartStop ==
    \/ CallRoute
    \/ CallSetEngine
    \/ CallStart
    \/ CallStop
    \/ StartResolves
    \/ StartRejects
    \/ StopResolves
    \/ StopRejects

SpecStartStop == Init /\ [][NextStartStop]_vars

\* C28 as stated: when engine.listen rejects, start rejects with its error
\* and isRunning is false; when engine.close rejects, stop rejects with its
\* error and isRunning stays true; when they resolve, isRunning is true
\* after start and false after stop.
C28_Original ==
    [][/\ (engine'.listens < engine.listens /\ last'.op = "start rejects") =>
              (last'.err = ErrListen /\ ~isRunning')
       /\ (engine'.closes < engine.closes /\ last'.op = "stop rejects") =>
              (last'.err = ErrClose /\ isRunning')
       /\ (engine'.listens < engine.listens /\ last'.op = "start resolves") => isRunning'
       /\ (engine'.closes < engine.closes /\ last'.op = "stop resolves") => ~isRunning']_vars

\* C29: while the server is running, also while start is still awaiting
\* listen, start, setEngine and route throw and leave the engine, the
\* table and the flag as they were; stop on a server that is not running
\* returns without calling close; when the server is not running, as after
\* a stop that resolved, route and setEngine are accepted.
C29_Guards ==
    [][/\ (pc = "idle" /\ isRunning /\ last'.op \in {"start", "setEngine", "route"}) =>
              /\ last'.err = (CASE last'.op = "start" -> "Server is already running"
                                [] last'.op = "setEngine" ->
                                       "Cannot change engine while server is running"
                                [] last'.op = "route" ->
                                       "Cannot add routes after server has started")
              /\ engine' = engine /\ routes' = routes /\ isRunning'
       /\ (~isRunning /\ last'.op = "stop") =>
              (last'.err = NoError /\ engine' = engine /\ ~isRunning')
       /\ (~isRunning /\ last'.op = "route") =>
              (last'.err = NoError /\ Len(routes') = Len(routes) + 1 /\ ~isRunning')
       /\ (~isRunning /\ last'.op = "setEngine") =>
              (last'.err = NoError /\ engine' = EngineIdle /\ ~isRunning')
       /\ (engine'.closes < engine.closes /\ last'.op = "stop resolves") => ~isRunning']_vars

C29_Witness ==
    /\ last.op = "setEngine"
    /\ last.late
    /\ last.err = ErrEngineRunning
    /\ engine.listens > 0
    /\ ~engine.listening
    /\ isRunning

\* C30 as stated: the route handler is invoked at most once per
\* processRequest call, whatever the hooks do.
C30_Original == Cardinality(At("handler")) <= 1

Befores == { p \in 1..Len(trace) : trace[p].ev = "before" }

\* C31: within one processRequest call the cursor only increases and
\* never passes the end of the combined list; every before hook is invoked
\* at most once, and before hooks are invoked in increasing list order.
C31_Cursor ==
    [][/\ index' >= index
       /\ index' <= Len(allMiddlewares')
       /\ \A p, q \in Befores' : p < q => trace'[p].mw < trace'[q].mw]_vars

C31_Witness ==
    /\ pc = "done"
    /\ index = 2
    /\ Len(allMiddlewares) = 2
    /\ Cardinality(Befores) = 2
    /\ Cardinality(At("handler")) = 2

OnErrorsOf(i) == { p \in 1..Len(trace) : trace[p].ev \in {"onError", "sweepOnError"} /\ trace[p].mw = i }

\* C32 as stated: each middleware's onError hook is invoked at most once
\* per processRequest call, the sweep of handleError included.
C32_Original == \A i \in 1..Len(allMiddlewares) : Cardinality(OnErrorsOf(i)) <= 1

\* C32, amended: each middleware's onError hook is invoked at most once by
\* the chain and at most once by the sweep of handleError; a global
\* middleware whose onError ran in the chain and raised is invoked again by
\* the sweep.
C32_OncePerTier ==
    \A i \in 1..Len(allMiddlewares) :
        /\ Cardinality({ p \in OnErrorsOf(i) : trace[p].ev = "onError" }) <= 1
        /\ Cardinality({ p \in OnErrorsOf(i) : trace[p].ev = "sweepOnError" }) <= 1

C32_Witness ==
    /\ pc = "done"
    /\ \E i \in 1..Len(globalMiddlewares) :
        /\ \E p \in OnErrorsOf(i) : trace[p].ev = "onError"
        /\ \E p \in OnErrorsOf(i) : trace[p].ev = "sweepOnError"
    /\ \E p \in ThrowsBy("sweep") : TRUE

\* C33 as stated: once processRequest has resolved with a response, no
\* hook or handler of the request is still running and the response is
\* not changed any more.
C33_Original ==
    [][(pc = "done" /\ result # 0 /\ ~rejected) =>
           /\ \A t \in 1..Len(threads) : threads[t] = <<>>
           /\ responses'[result] = responses[result]]_vars

\* C34 as stated: under every interleaving of start and stop calls and of
\* listen and close settling, isRunning is true whenever the engine is
\* listening, and no route is accepted while the engine is listening.
C34_Original ==
    [][/\ engine.listening => isRunning
       /\ engine.listening => routes' = routes]_vars

\* ---------------------------------------------------------------------
\* RouteGroup with its arrays by reference.  `heap` holds the route
\* objects and the arrays ([items |-> ...]); a group refers to its routes
\* array and its middlewares array by their positions in the heap, as the
\* constructor keeps the arrays it is given.

Items(h, id) == h[id].items
\* the routes of a group, read now
RoutesOf(h, g) == [i \in 1..Len(Items(h, g.routes)) |-> h[Items(h, g.routes)[i]]]
View(h, g) == [prefix |-> g.prefix, routes |-> RoutesOf(h, g),
               middlewares |-> Items(h, g.middlewares)]

\* new RouteGroup(prefix, routes, middlewares), the arrays given by reference
newRouteGroup(h, prefix, routesId, middlewaresId) ==
    LET p == normalizePrefix(prefix)
        g == [prefix |-> p, routes |-> routesId, middlewares |-> middlewaresId, made |-> TRUE]
    IN  IF validateRoutes(p, RoutesOf(h, g)) # NoError
        THEN [heap |-> h, group |-> NoGroup, err |-> validateRoutes(p, RoutesOf(h, g))]
        ELSE [heap |-> h, group |-> g, err |-> NoError]

\* this.routes.push(route) in place of the copy
addRouteInPlace(h, g, routeId) ==
    IF \E i \in 1..Len(RoutesOf(h, g)) :
           routeKey(g.prefix, RoutesOf(h, g)[i]) = routeKey(g.prefix, h[routeId])
    THEN [heap |-> h, group |-> NoGroup,
          err |-> "Route already exists: " \o routeKey(g.prefix, h[routeId])]
    ELSE newRouteGroup([h EXCEPT ![g.routes].items = Append(@, routeId)],
                       g.prefix, g.routes, g.middlewares)

\* addRoute: [...this.routes, route] is a new array
addRouteByReference(h, g, routeId) ==
    IF \E i \in 1..Len(RoutesOf(h, g)) :
           routeKey(g.prefix, RoutesOf(h, g)[i]) = routeKey(g.prefix, h[routeId])
    THEN [heap |-> h, group |-> NoGroup,
          err |-> "Route already exists: " \o routeKey(g.prefix, h[routeId])]
    ELSE newRouteGroup(Append(h, [items |-> Append(Items(h, g.routes), routeId)]),
                       g.prefix, Len(h) + 1, g.middlewares)

\* use: this.routes is passed on, [...this.middlewares, middleware] is a new array
useByReference(h, g, middleware) ==
    newRouteGroup(Append(h, [items |-> Append(Items(h, g.middlewares), middleware)]),
                  g.prefix, g.routes, Len(h) + 1)

\* route.path = this.prefix + route.path on the group's own route objects
getPrefixedRoutesInPlace(h, g) ==
    [heap |-> [i \in 1..Len(h) |->
                 IF \E k \in 1..Len(Items(h, g.routes)) : Items(h, g.routes)[k] = i
                 THEN [h[i] EXCEPT !.path = Join(g.prefix) \o @,
                                   !.middlewares = Items(h, g.middlewares) \o @]
                 ELSE h[i]],
     routes |-> g.routes]

\* getPrefixedRoutes: map makes a new array of new route objects
getPrefixedRoutesByReference(h, g) ==
    [heap |-> h \o [i \in 1..Len(RoutesOf(h, g)) |->
                      [RoutesOf(h, g)[i] EXCEPT !.path = Join(g.prefix) \o @,
                                                !.middlewares = Items(h, g.middlewares) \o @]]
                \o <<[items |-> [i \in 1..Len(RoutesOf(h, g)) |-> Len(h) + i]]>>,
     routes |-> Len(h) + Len(RoutesOf(h, g)) + 1]

HeapCall(op, on, out, given, got) ==
    /\ Len(trace) < MaxGroupCalls
    /\ heap' = out.heap
    /\ trace' = Append(trace, [op |-> op, on |-> on,
                               before |-> IF on.made THEN View(heap, on) ELSE NoGroup,
                               given |-> given, made |-> out.group, got |-> got,
                               err |-> out.err])
    /\ UNCHANGED <<serverVars, last, atSend, parked, responses, pc, request, allMiddlewares,
                   handler, index, threads, caught, cursor, result, rejected, unhandled>>

\* the caller makes the route objects and the two arrays, then the group
HeapNew ==
    /\ trace = <<>>
    /\ \E prefix \in PrefixInputs, rs \in SeqsUpTo(GroupRoutes, MaxGroupRoutes),
          mws \in SeqsUpTo(GroupMiddlewares, 1) :
         LET h == rs \o <<[items |-> [i \in 1..Len(rs) |-> i]], [items |-> mws]>>
         IN  HeapCall("new", NoGroup, newRouteGroup(h, prefix, Len(rs) + 1, Len(rs) + 2),
                      <<>>, 0)

HeapAddRoute ==
    \E p \in MadeAt, r \in GroupRoutes :
        HeapCall("addRoute", trace[p].made,
                 addRouteByReference(Append(heap, r), trace[p].made, Len(heap) + 1), <<r>>, 0)

HeapUse ==
    \E p \in MadeAt, m \in GroupMiddlewares :
        HeapCall("use", trace[p].made, useByReference(heap, trace[p].made, m), <<m>>, 0)

HeapGetPrefixedRoutes ==
    \E p \in MadeAt :
        HeapCall("getPrefixedRoutes", trace[p].made,
                 [heap |-> getPrefixedRoutesByReference(heap, trace[p].made).heap,
                  group |-> NoGroup, err |-> NoError],
                 <<>>, getPrefixedRoutesByReference(heap, trace[p].made).routes)

NextPersistent == HeapNew \/ HeapAddRoute \/ HeapUse \/ HeapGetPrefixedRoutes

SpecPersistent == Init /\ [][NextPersistent]_vars

\* C35: addRoute, use and getPrefixedRoutes leave the group they are
\* called on with the prefix, routes and middlewares it had, also when
\* addRoute throws; what addRoute and use return is another group with
\* the route or the middleware added.
C35_Persistent ==
    \A p \in 1..Len(trace) :
        /\ trace[p].on.made => View(heap, trace[p].on) = trace[p].before
        /\ (trace[p].op = "addRoute" /\ trace[p].err = NoError) =>
               /\ trace[p].made # trace[p].on
               /\ View(heap, trace[p].made).routes = trace[p].before.routes \o trace[p].given
               /\ View(heap, trace[p].made).middlewares = trace[p].before.middlewares
        /\ (trace[p].op = "use" /\ trace[p].err = NoError) =>
               /\ View(heap, trace[p].made).routes = trace[p].before.routes
               /\ View(heap, trace[p].made).middlewares =
                      trace[p].before.middlewares \o trace[p].given
        /\ trace[p].op = "getPrefixedRoutes" =>
               RoutesOf(heap, [trace[p].on EXCEPT !.routes = trace[p].got]) =
                   getPrefixedRoutes(trace[p].before)

C35_Witness ==
    /\ Len(trace) = 3
    /\ trace[2].op = "addRoute" /\ trace[2].err # NoError
    /\ trace[3].op = "addRoute" /\ trace[3].err = NoError /\ trace[3].on = trace[1].made
    /\ Len(trace[3].before.routes) = 1

\* C36 as stated: a route with a path beginning with "/" registered
\* through a group with the root prefix is stored with that path and is
\* found by a request for it.
C36_Original ==
    \A k \in DOMAIN routes :
        (/\ Supplied(trace)[k].call.op = "group"
         /\ Supplied(trace)[k].call.prefix = <<"/">>
         /\ Supplied(trace)[k].route.path = "/x") =>
            /\ routes[k].path = "/x"
            /\ findRoute(routes, routes[k].method, "/x") # 0

====
